---- MODULE Spec2Model ----
(***************************************************************************)
(* Builtin.is / Builtin.typeOf (src/polyfill.js): the @@builtin marker     *)
(* protocol over a heap of JavaScript objects.                             *)
(*                                                                         *)
(* A JavaScript value is a record [k, v]: k is the kind of the value and v *)
(* a string (the text of a primitive, or the identity of an object).  A    *)
(* completion is [c, r]: c is "normal" or "throw", r the value returned or *)
(* the error thrown.                                                       *)
(***************************************************************************)
EXTENDS Naturals, Sequences, FiniteSets

VARIABLES
  marker,   \* the own @@builtin (kSymbol) property of the objects callers write
  writes,   \* number of marker writes the caller has made
  last,     \* the call to Builtin.is / Builtin.typeOf that has just completed
  saved,    \* the caller's captured marker (README "capture, cache, restore")
  slot      \* the own [kBuiltin] property of the registered objects among them

vars == <<marker, writes, last, saved, slot>>

(***************************************************************************)
(* Bounds                                                                  *)
(***************************************************************************)
MaxWrites == 2

(***************************************************************************)
(* Values and completions                                                  *)
(***************************************************************************)
Val(k, v) == [k |-> k, v |-> v]

undefined == Val("undefined", "")

null == Val("null", "")

Str(s) == Val("string", s)

Num(s) == Val("number", s)

Bool(s) == Val("boolean", s)

Sym(s) == Val("symbol", s)

Ref(id) == Val("ref", id)

\* no own property (not a JavaScript value)
ABSENT == Val("absent", "")

Normal(v) == [c |-> "normal", r |-> v]

Throw(e) == [c |-> "throw", r |-> Val("error", e)]

(***************************************************************************)
(* The default registration table                                          *)
(***************************************************************************)
labels ==
  << <<"Array", "Array">>, <<"ArrayBuffer", "ArrayBuffer">>,
     <<"AsyncFunction", "AsyncFunction">>, <<"Boolean", "Boolean">>,
     <<"DataView", "DataView">>, <<"Date", "Date">>, <<"Error", "Error">>,
     <<"EvalError", "EvalError">>, <<"Float32Array", "Float32Array">>,
     <<"Float64Array", "Float64Array">>, <<"Function", "function">>,
     <<"GeneratorFunction", "GeneratorFunction">>,
     <<"Int8Array", "Int8Array">>, <<"Int16Array", "Int16Array">>,
     <<"Int32Array", "Int32Array">>, <<"JSON", "JSON">>, <<"Map", "Map">>,
     <<"Math", "Math">>, <<"Number", "Number">>, <<"Object", "object">>,
     <<"Promise", "Promise">>, <<"Proxy", "Proxy">>,
     <<"RangeError", "RangeError">>, <<"ReferenceError", "ReferenceError">>,
     <<"Reflect", "Reflect">>, <<"RegExp", "RegExp">>, <<"Set", "Set">>,
     <<"String", "String">>, <<"Symbol", "Symbol">>,
     <<"SyntaxError", "SyntaxError">>, <<"TypeError", "TypeError">>,
     <<"Uint8Array", "Uint8Array">>,
     <<"Uint8ClampedArray", "Uint8ClampedArray">>,
     <<"Uint16Array", "Uint16Array">>, <<"Uint32Array", "Uint32Array">>,
     <<"URIError", "URIError">>, <<"WeakMap", "WeakMap">>,
     <<"WeakSet", "WeakSet">> >>

\* the objects the loop over labels tags, with Atomics and SharedArrayBuffer
Registered ==
  {labels[n][1] : n \in DOMAIN labels} \cup {"Atomics", "SharedArrayBuffer"}

\* the value labels[n + 1] the registration gives to labels[n]
LabelOf(id) ==
  IF id \in {"Atomics", "SharedArrayBuffer"}
    THEN id
    ELSE labels[CHOOSE n \in DOMAIN labels : labels[n][1] = id][2]

\* the table of [[Builtin]] values of the README: intrinsic, builtin name
BuiltinTable ==
  << <<"Array", "Array">>, <<"ArrayBuffer", "ArrayBuffer">>,
     <<"AsyncFunction", "AsyncFunction">>, <<"Atomics", "Atomics">>,
     <<"Boolean", "Boolean">>, <<"DataView", "DataView">>, <<"Date", "Date">>,
     <<"Error", "Error">>, <<"EvalError", "EvalError">>,
     <<"Float32Array", "Float32Array">>, <<"Float64Array", "Float64Array">>,
     <<"Function", "function">>, <<"GeneratorFunction", "GeneratorFunction">>,
     <<"Int8Array", "Int8Array">>, <<"Int16Array", "Int16Array">>,
     <<"Int32Array", "Int32Array">>, <<"JSON", "JSON">>, <<"Map", "Map">>,
     <<"Math", "Math">>, <<"Number", "Number">>, <<"Object", "object">>,
     <<"Promise", "Promise">>, <<"Proxy", "Proxy">>,
     <<"RangeError", "RangeError">>, <<"ReferenceError", "ReferenceError">>,
     <<"Reflect", "Reflect">>, <<"RegExp", "RegExp">>, <<"Set", "Set">>,
     <<"SharedArrayBuffer", "SharedArrayBuffer">>, <<"String", "String">>,
     <<"Symbol", "symbol">>, <<"SyntaxError", "SyntaxError">>,
     <<"TypeError", "TypeError">>, <<"Uint8Array", "Uint8Array">>,
     <<"Uint8ClampedArray", "Uint8ClampedArray">>,
     <<"Uint16Array", "Uint16Array">>, <<"Uint32Array", "Uint32Array">>,
     <<"URIError", "URIError">>, <<"WeakMap", "WeakMap">>,
     <<"WeakSet", "WeakSet">> >>

(***************************************************************************)
(* The heap: the intrinsics of the realm, the intrinsics of a second realm *)
(* (vm.runInNewContext), and the objects of the README and the tests.      *)
(***************************************************************************)
Namespaces == {"JSON", "Math", "Reflect", "Atomics"}

NativeErrors ==
  {"EvalError", "RangeError", "ReferenceError", "SyntaxError", "TypeError",
   "URIError"}

TypedArrays ==
  {"Float32Array", "Float64Array", "Int8Array", "Int16Array", "Int32Array",
   "Uint8Array", "Uint8ClampedArray", "Uint16Array", "Uint32Array"}

FunctionKinds == {"Function", "AsyncFunction", "GeneratorFunction"}

\* class Foo { static [Symbol.builtin]() { return 'Foo'; } }
\* class Bar extends Foo {}; class N {}; class MyArray extends Uint8Array {}
UserClasses == {"Foo", "Bar", "N", "MyArray"}

\* Date, Number, Error and RangeError of the second realm
Realm2Classes == {"Date@2", "Number@2", "Error@2", "RangeError@2"}

\* constructors with a prototype property (Proxy has none)
Classes ==
  ((Registered \ Namespaces) \ {"Proxy"}) \cup {"TypedArray"}
    \cup UserClasses \cup Realm2Classes

PrototypeOf(K) == K \o ".prototype"

\* the object `new K()` makes
New(K) == "new " \o K

Prototypes == {PrototypeOf(K) : K \in Classes}

Instances == {New(K) : K \in Classes}

\* the functions callers install as markers, named after what they do
Callables ==
  {"builtin", "builtin@2", "retDate", "retFoo", "retUndefined", "throws",
   "retSymbol", "ret1", "retStr1", "retNull", "retTrue", "retEmpty"}

\* {}; Object.setPrototypeOf({}, Date); Object.create(null);
\* {constructor: 5}; {constructor: null}; {constructor: undefined}; {} of realm 2
PlainObjects == {"obj", "m", "bare", "c5", "cnull", "cundef", "plain@2"}

Objects ==
  Registered \cup Classes \cup Prototypes \cup Instances \cup Callables
    \cup PlainObjects \cup {"Object.prototype@2", "Function.prototype@2"}

ClassOfPrototype(id) == CHOOSE K \in Classes : PrototypeOf(K) = id

ClassOfInstance(id) == CHOOSE K \in Classes : New(K) = id

\* typeof of an object: "function" for the callable ones
typeofObject(id) ==
  IF \/ id \in Classes \cup Callables \cup {"Proxy"}
     \/ id \in {"Function.prototype", "Function.prototype@2"}
     \/ id \in {New(K) : K \in FunctionKinds}
    THEN "function"
    ELSE "object"

\* [[Prototype]] of the prototype object of class K
protoOfPrototype(K) ==
  IF K = "Object" THEN "null"
  ELSE IF K \in NativeErrors THEN "Error.prototype"
  ELSE IF K \in {"AsyncFunction", "GeneratorFunction"} THEN "Function.prototype"
  ELSE IF K \in TypedArrays THEN "TypedArray.prototype"
  ELSE IF K = "Bar" THEN "Foo.prototype"
  ELSE IF K = "MyArray" THEN "Uint8Array.prototype"
  ELSE IF K = "RangeError@2" THEN "Error@2.prototype"
  ELSE IF K \in Realm2Classes THEN "Object.prototype@2"
  ELSE "Object.prototype"

\* [[Prototype]] of an object ("null" at the end of a chain)
proto(id) ==
  IF id \in NativeErrors THEN "Error"
  ELSE IF id \in {"AsyncFunction", "GeneratorFunction"} THEN "Function"
  ELSE IF id \in TypedArrays THEN "TypedArray"
  ELSE IF id = "Bar" THEN "Foo"
  ELSE IF id = "MyArray" THEN "Uint8Array"
  ELSE IF id = "RangeError@2" THEN "Error@2"
  ELSE IF id \in Realm2Classes \cup {"builtin@2"} THEN "Function.prototype@2"
  ELSE IF id \in Classes \cup Callables \cup {"Proxy"} THEN "Function.prototype"
  ELSE IF id \in {"Object.prototype@2", "bare"} THEN "null"
  ELSE IF id = "Function.prototype@2" THEN "Object.prototype@2"
  ELSE IF id \in Prototypes THEN protoOfPrototype(ClassOfPrototype(id))
  ELSE IF id \in Instances THEN PrototypeOf(ClassOfInstance(id))
  ELSE IF id = "m" THEN "Date"
  ELSE IF id = "plain@2" THEN "Object.prototype@2"
  ELSE "Object.prototype"

\* the own "constructor" property of an object
ownConstructor(id) ==
  IF id \in Prototypes THEN Ref(ClassOfPrototype(id))
  ELSE IF id = "c5" THEN Num("5")
  ELSE IF id = "cnull" THEN null
  ELSE IF id = "cundef" THEN undefined
  ELSE ABSENT

\* the own [kBuiltin] property of an object: set at registration,
\* not writable, not configurable
ownBuiltinSlot(id) ==
  CASE id \in Registered -> Str(LabelOf(id))
    [] id = "Date@2" -> Str("Date")
    [] id = "Number@2" -> Str("Number")
    [] id = "Error@2" -> Str("Error")
    [] id = "RangeError@2" -> Str("RangeError")
    [] OTHER -> ABSENT

\* the own kSymbol property the module load (and the class bodies) leave
InitialMarker(id) ==
  CASE id \in Registered -> Ref("builtin")
    [] id \in Realm2Classes -> Ref("builtin@2")
    [] id = "Foo" -> Ref("retFoo")
    [] OTHER -> ABSENT

\* the objects whose marker the callers of this model write
Mutable == {"Date", "AsyncFunction", "Uint8Array", "MyArray", "obj"}

\* the objects whose marker the callers of SpecAny write
AnyWritable == {"Date", "N", "Function"}

\* the objects whose marker the callers of SpecErrors write and delete
ErrWritable == {"Error", "RangeError", "Date"}

\* the objects whose own kSymbol property is part of the state
Tracked == Mutable \cup AnyWritable \cup ErrWritable

\* the own kSymbol property of object id in marker state mk
OwnMarker(mk, id) == IF id \in Tracked THEN mk[id] ELSE InitialMarker(id)

\* the registered objects whose own [kBuiltin] property is part of the state
Slotted == Tracked \cap Registered

\* a [kBuiltin] property that callers can assign
SlotDescriptor_writable(id) ==
  [value |-> ownBuiltinSlot(id), writable |-> TRUE, configurable |-> FALSE]

\* the [kBuiltin] property Object.defineProperties creates: writable is not
\* given and so false, configurable is false
SlotDescriptor(id) ==
  [value |-> ownBuiltinSlot(id), writable |-> FALSE, configurable |-> FALSE]

\* the heap as one table: the type, [[Prototype]], own constructor property
\* and own [kBuiltin] property of every object
Heap ==
  [id \in Objects |->
    [type |-> typeofObject(id), proto |-> proto(id),
     constructor |-> ownConstructor(id), kBuiltin |-> ownBuiltinSlot(id)]]

(***************************************************************************)
(* The language: typeof, property lookup, ToObject, ToString               *)
(***************************************************************************)
\* typeof value
typeof(value) ==
  CASE value.k = "ref" -> Heap[value.v].type
    [] value.k = "null" -> "object"
    [] OTHER -> value.k

\* the object a property lookup on value starts at: the object itself, or
\* the prototype of the wrapper of a primitive
LookupStart(value) ==
  CASE value.k = "ref" -> value.v
    [] value.k = "boolean" -> "Boolean.prototype"
    [] value.k = "number" -> "Number.prototype"
    [] value.k = "string" -> "String.prototype"
    [] value.k = "symbol" -> "Symbol.prototype"

\* a lookup that stops at the object itself
LookupMarker_ownOnly(mk, id) == OwnMarker(mk, id)

RECURSIVE LookupMarker_farthest(_, _)
\* a lookup that prefers the marker farthest up the prototype chain
LookupMarker_farthest(mk, id) ==
  IF id = "null" THEN undefined
  ELSE LET up == LookupMarker_farthest(mk, Heap[id].proto) IN
    IF up # undefined THEN up
    ELSE IF OwnMarker(mk, id) # ABSENT THEN OwnMarker(mk, id)
    ELSE undefined

RECURSIVE LookupMarker(_, _)
\* id[kSymbol]: the nearest kSymbol property on the prototype chain of id
LookupMarker(mk, id) ==
  IF id = "null" THEN undefined
  ELSE IF OwnMarker(mk, id) # ABSENT THEN OwnMarker(mk, id)
  ELSE LookupMarker(mk, Heap[id].proto)

\* the value of the own [kBuiltin] property of object id
SlotOf(id) == IF id \in Slotted THEN slot[id].value ELSE Heap[id].kBuiltin

RECURSIVE LookupBuiltinSlot(_)
\* id[kBuiltin]: the nearest kBuiltin property on the prototype chain of id
LookupBuiltinSlot(id) ==
  IF id = "null" THEN undefined
  ELSE IF SlotOf(id) # ABSENT THEN SlotOf(id)
  ELSE LookupBuiltinSlot(Heap[id].proto)

RECURSIVE LookupConstructor(_)
\* id.constructor: the nearest constructor property on the prototype chain
LookupConstructor(id) ==
  IF id = "null" THEN undefined
  ELSE IF Heap[id].constructor # ABSENT THEN Heap[id].constructor
  ELSE LookupConstructor(Heap[id].proto)

\* value.constructor (a TypeError on null)
GetConstructor(value) ==
  IF value.k = "null" THEN Throw("TypeError")
  ELSE Normal(LookupConstructor(LookupStart(value)))

\* an interpolation that leaves the value as it is
ToString_identity(val) == Normal(val)

\* `${val}`: the string of a value, a TypeError for a symbol
ToString(val) ==
  CASE val.k = "string" -> Normal(val)
    [] val.k = "symbol" -> Throw("TypeError")
    [] val.k = "ref" ->
         Normal(Str(IF Heap[val.v].type = "function"
                      THEN "function () {}" ELSE "[object Object]"))
    [] val.k \in {"undefined", "null"} -> Normal(Str(val.k))
    [] OTHER -> Normal(Str(val.v))

(***************************************************************************)
(* src/polyfill.js                                                         *)
(***************************************************************************)
\* a default marker function that fails on a receiver without the slot
builtin_slotRequired(this) ==
  IF this.k # "ref" THEN Throw("TypeError")
  ELSE IF LookupBuiltinSlot(this.v) = undefined THEN Throw("TypeError")
  ELSE Normal(LookupBuiltinSlot(this.v))

\* a default marker function that answers for the object it was first
\* installed on (Function) and not for its receiver
builtin_ofFunction(this) ==
  IF typeof(this) # "object" /\ typeof(this) # "function"
    THEN Throw("TypeError")
  ELSE IF this.k = "null" THEN Throw("TypeError")
  ELSE Normal(LookupBuiltinSlot("Function"))

\* function builtin(), called with receiver this
builtin(this) ==
  IF typeof(this) # "object" /\ typeof(this) # "function"
    THEN Throw("TypeError")
  ELSE IF this.k = "null" THEN Throw("TypeError")
  ELSE Normal(LookupBuiltinSlot(this.v))

\* a call that runs no function but the default one
Call_defaultOnly(fn, value) ==
  IF fn.k # "ref" \/ fn.v \notin Callables THEN Throw("TypeError")
  ELSE IF fn.v \in {"builtin", "builtin@2"} THEN builtin(value)
  ELSE Normal(undefined)

\* fn.call(value): fn is the value read from value[kSymbol]
Call(fn, value) ==
  IF fn.k # "ref" \/ fn.v \notin Callables THEN Throw("TypeError")
  ELSE CASE fn.v \in {"builtin", "builtin@2"} -> builtin(value)
         [] fn.v = "retDate" -> Normal(Str("Date"))
         [] fn.v = "retFoo" -> Normal(Str("Foo"))
         [] fn.v = "retUndefined" -> Normal(undefined)
         [] fn.v = "retSymbol" -> Normal(Sym("s"))
         [] fn.v = "throws" -> Throw("Error")
         [] fn.v = "ret1" -> Normal(Num("1"))
         [] fn.v = "retStr1" -> Normal(Str("1"))
         [] fn.v = "retNull" -> Normal(null)
         [] fn.v = "retTrue" -> Normal(Bool("true"))
         [] fn.v = "retEmpty" -> Normal(Str(""))

\* GetBuiltinValue without the `fn === undefined` return
GetBuiltinValue_callsUndefined(mk, value) ==
  IF value = null THEN Normal(undefined)
  ELSE LET val == Call(LookupMarker(mk, LookupStart(value)), value) IN
    IF val.c = "throw" THEN val
    ELSE IF val.r = undefined THEN Normal(undefined)
    ELSE ToString(val.r)

\* GetBuiltinValue that takes a failure of the marker for no kind
GetBuiltinValue_swallows(mk, value) ==
  IF value = null THEN Normal(undefined)
  ELSE LET fn == LookupMarker(mk, LookupStart(value)) IN
    IF fn = undefined THEN Normal(undefined)
    ELSE LET val == Call(fn, value) IN
      IF val.c = "throw" THEN Normal(undefined)
      ELSE IF val.r = undefined THEN Normal(undefined)
      ELSE IF ToString(val.r).c = "throw" THEN Normal(undefined)
      ELSE ToString(val.r)

\* GetBuiltinValue without the `value === null` return: null[kSymbol]
GetBuiltinValue_readsNull(mk, value) ==
  IF value = null THEN Throw("TypeError")
  ELSE LET fn == LookupMarker(mk, LookupStart(value)) IN
    IF fn = undefined THEN Normal(undefined)
    ELSE LET val == Call(fn, value) IN
      IF val.c = "throw" THEN val
      ELSE IF val.r = undefined THEN Normal(undefined)
      ELSE ToString(val.r)

GetBuiltinValue(mk, value) ==
  IF value = null THEN Normal(undefined)
  ELSE LET fn == LookupMarker(mk, LookupStart(value)) IN
    IF fn = undefined THEN Normal(undefined)
    ELSE LET val == Call(fn, value) IN
      IF val.c = "throw" THEN val
      ELSE IF val.r = undefined THEN Normal(undefined)
      ELSE ToString(val.r)

\* a test with `kSymbol in value`, which inherited markers pass
HasOwnMarker_onChain(mk, value) ==
  value.k = "ref" /\ LookupMarker(mk, value.v) # undefined

\* Object.getOwnPropertyDescriptor(value, kSymbol) is not undefined
HasOwnMarker(mk, value) ==
  value.k = "ref" /\ OwnMarker(mk, value.v) # ABSENT

\* GetOwnBuiltinValue without the own-property test
GetOwnBuiltinValue_inherited(mk, value) ==
  IF value = null THEN Normal(undefined)
  ELSE GetBuiltinValue(mk, value)

GetOwnBuiltinValue(mk, value) ==
  IF value = null THEN Normal(undefined)
  ELSE IF ~HasOwnMarker(mk, value) THEN Normal(undefined)
  ELSE GetBuiltinValue(mk, value)

\* is by identity of the two objects
_is_identity(mk, value1, value2) ==
  IF typeof(value1) # "object" /\ typeof(value1) # "function"
    THEN Normal(Bool("false"))
  ELSE Normal(Bool(IF value1 = value2 THEN "true" ELSE "false"))

\* is that reads both kinds before it looks at the arguments
_is_eager(mk, value1, value2) ==
  LET v1 == GetOwnBuiltinValue(mk, value1)
      v2 == GetOwnBuiltinValue(mk, value2) IN
    IF v1.c = "throw" THEN v1
    ELSE IF v2.c = "throw" THEN v2
    ELSE IF typeof(value1) # "object" /\ typeof(value1) # "function"
      THEN Normal(Bool("false"))
    ELSE IF v1.r = undefined THEN Normal(Bool("false"))
    ELSE Normal(Bool(IF v1.r = v2.r THEN "true" ELSE "false"))

_is(mk, value1, value2) ==
  IF typeof(value1) # "object" /\ typeof(value1) # "function"
    THEN Normal(Bool("false"))
  ELSE LET v1 == GetOwnBuiltinValue(mk, value1) IN
    IF v1.c = "throw" THEN v1
    ELSE IF v1.r = undefined THEN Normal(Bool("false"))
    ELSE IF value2 = undefined THEN Normal(Bool("false"))
    ELSE IF typeof(value2) # "object" /\ typeof(value1) # "function"
      THEN Normal(Bool("false"))
    ELSE LET v2 == GetOwnBuiltinValue(mk, value2) IN
      IF v2.c = "throw" THEN v2
      ELSE Normal(Bool(IF v1.r = v2.r THEN "true" ELSE "false"))

\* GetOwnBuiltinValue(value) reaches fn.call(value)
Invokes(mk, value) ==
  /\ value # null
  /\ HasOwnMarker(mk, value)
  /\ LookupMarker(mk, LookupStart(value)) # undefined

\* marker calls of an is that reads value2 first
IsInvocations_value2First(mk, value1, value2) ==
  (IF Invokes(mk, value2) THEN <<"value2">> ELSE <<>>)
    \o (IF Invokes(mk, value1) THEN <<"value1">> ELSE <<>>)

\* the marker calls _is(value1, value2) makes, in order, each named by the
\* argument whose marker is called
IsInvocations(mk, value1, value2) ==
  IF typeof(value1) # "object" /\ typeof(value1) # "function" THEN <<>>
  ELSE LET c1 == IF Invokes(mk, value1) THEN <<"value1">> ELSE <<>>
           v1 == GetOwnBuiltinValue(mk, value1) IN
    IF v1.c = "throw" THEN c1
    ELSE IF v1.r = undefined THEN c1
    ELSE IF value2 = undefined THEN c1
    ELSE IF typeof(value2) # "object" /\ typeof(value1) # "function" THEN c1
    ELSE c1 \o (IF Invokes(mk, value2) THEN <<"value2">> ELSE <<>>)

\* typeOf that never consults the constructor
_typeof_noConstructor(mk, value) == Normal(Str(typeof(value)))

\* typeOf that asks the value itself for its kind
_typeof_ownMarker(mk, value) ==
  IF typeof(value) = "object" \/ typeof(value) = "function"
    THEN LET val == GetBuiltinValue(mk, value) IN
      IF val.c = "throw" THEN val
      ELSE IF val.r # undefined THEN val
      ELSE Normal(Str(typeof(value)))
  ELSE Normal(Str(typeof(value)))

\* typeOf that takes the empty string for no kind
_typeof_nonEmpty(mk, value) ==
  IF typeof(value) = "object" \/ typeof(value) = "function"
    THEN LET ctor == GetConstructor(value) IN
      IF ctor.c = "throw" THEN ctor
      ELSE IF ctor.r # undefined
        THEN LET val == GetBuiltinValue(mk, ctor.r) IN
          IF val.c = "throw" THEN val
          ELSE IF val.r # undefined /\ val.r # Str("") THEN val
          ELSE Normal(Str(typeof(value)))
      ELSE Normal(Str(typeof(value)))
  ELSE Normal(Str(typeof(value)))

_typeof(mk, value) ==
  IF typeof(value) = "object" \/ typeof(value) = "function"
    THEN LET ctor == GetConstructor(value) IN
      IF ctor.c = "throw" THEN ctor
      ELSE IF ctor.r # undefined
        THEN LET val == GetBuiltinValue(mk, ctor.r) IN
          IF val.c = "throw" THEN val
          ELSE IF val.r # undefined THEN val
          ELSE Normal(Str(typeof(value)))
      ELSE Normal(Str(typeof(value)))
  ELSE Normal(Str(typeof(value)))

(***************************************************************************)
(* The callers: marker writes, calls of Builtin.is and Builtin.typeOf, and *)
(* the capture / mask / restore sequence of the README                     *)
(***************************************************************************)
\* the values the callers of this model assign to a marker
MarkerValues == {undefined, Ref("builtin"), Ref("retDate"), Ref("throws")}

\* the arguments the callers of this model pass to Builtin.is
IsArgs ==
  {undefined, null, Num("1"), Ref("Date"), Ref("Date@2"), Ref("Number@2"),
   Ref("Uint8Array"), Ref("Reflect"), Ref("Foo"), Ref("MyArray"), Ref("obj"),
   Ref("m"), Ref("new Date"), Ref("plain@2")}

Primitives ==
  {undefined, null, Bool("true"), Num("1"), Str("test"), Sym("foo")}

\* the arguments the callers of this model pass to Builtin.typeOf
TypeOfArgs ==
  Primitives \cup {Ref(id) : id \in Instances}
    \cup {Ref("Date"), Ref("Reflect"), Ref("Foo"), Ref("N"), Ref("obj"),
          Ref("m"), Ref("bare"), Ref("c5"), Ref("cnull"), Ref("cundef"),
          Ref("Date.prototype")}

\* every kind of value a caller can assign to a marker
AnyValues ==
  {undefined, null, Num("1"), Bool("true"), Str("Date"), Ref("obj"),
   Ref("builtin"), Ref("retSymbol"), Ref("throws")}

\* the arguments the callers of SpecAny pass to Builtin.is
IsArgsAny ==
  Primitives \cup {Ref("Date"), Ref("Date@2"), Ref("N"), Ref("Function"),
                   Ref("obj"), Ref("new Date")}

\* the arguments the callers of SpecAny pass to Builtin.typeOf
TypeOfArgsAny ==
  Primitives \cup {Ref("Date"), Ref("N"), Ref("Function"), Ref("Reflect"),
                   Ref("new Date"), Ref("new N"), Ref("new Function"),
                   Ref("Date.prototype"), Ref("obj")}

\* the arguments the callers of SpecErrors pass to Builtin.is
IsArgsErr ==
  {undefined, Ref("Error"), Ref("RangeError"), Ref("RangeError@2"),
   Ref("Date"), Ref("Date@2"), Ref("obj")}

\* the arguments the callers of SpecErrors pass to Builtin.typeOf
TypeOfArgsErr ==
  {Ref("new Error"), Ref("new RangeError"), Ref("new TypeError"),
   Ref("new Date"), Ref("RangeError"), Ref("RangeError.prototype"),
   Ref("new RangeError@2"), Ref("obj")}

\* marker functions by what they return: a number, a string of digits,
\* null, a boolean, the empty string, undefined; and the default function
ReturnValues ==
  {Ref("ret1"), Ref("retStr1"), Ref("retNull"), Ref("retTrue"),
   Ref("retEmpty"), Ref("retUndefined"), Ref("builtin")}

\* the values a caller tries to put into a [kBuiltin] property
SlotValues == {undefined, Str("Foo")}

\* the receivers the default marker function is called with
Receivers ==
  Primitives \cup {Ref("Date"), Ref("new Date"), Ref("N"), Ref("Foo"),
                   Ref("MyArray"), Ref("obj"), Ref("bare")}

True == Normal(Bool("true"))

False == Normal(Bool("false"))

NoCall == [op |-> "none", value1 |-> undefined, value2 |-> undefined,
           result |-> Normal(undefined)]

NoCapture == [phase |-> "none", object |-> "", fn |-> undefined,
              before |-> [id \in Tracked |-> ABSENT]]

\* the registered constructors whose marker the README sequence captures
Capturable == Mutable \cap Registered

Init ==
  /\ marker = [id \in Tracked |-> InitialMarker(id)]
  /\ writes = 0
  /\ last = NoCall
  /\ saved = NoCapture
  /\ slot = [id \in Slotted |-> SlotDescriptor(id)]

\* object[Symbol.builtin] = value
Write(object, value) ==
  /\ last = NoCall
  /\ saved = NoCapture
  /\ writes < MaxWrites
  /\ marker' = [marker EXCEPT ![object] = value]
  /\ writes' = writes + 1
  /\ UNCHANGED <<last, saved, slot>>

\* Builtin.is that leaves a marker on value1 for its next call
Is_tagging(value1, value2) ==
  /\ last = NoCall
  /\ last' = [op |-> "is", value1 |-> value1, value2 |-> value2,
              result |-> _is(marker, value1, value2)]
  /\ marker' = IF value1.k = "ref" /\ value1.v \in Tracked
                 THEN [marker EXCEPT ![value1.v] = Ref("retDate")]
                 ELSE marker
  /\ UNCHANGED <<writes, saved, slot>>

\* Builtin.is answering from the markers it saw when the module was loaded
Is_stale(value1, value2) ==
  /\ last = NoCall
  /\ last' = [op |-> "is", value1 |-> value1, value2 |-> value2,
              result |-> _is([id \in Tracked |-> InitialMarker(id)],
                             value1, value2)]
  /\ UNCHANGED <<marker, writes, saved, slot>>

\* Builtin.is(value1, value2)
Is(value1, value2) ==
  /\ last = NoCall
  /\ last' = [op |-> "is", value1 |-> value1, value2 |-> value2,
              result |-> _is(marker, value1, value2)]
  /\ UNCHANGED <<marker, writes, saved, slot>>

\* Builtin.typeOf(value)
TypeOf(value) ==
  /\ last = NoCall
  /\ last' = [op |-> "typeOf", value1 |-> value, value2 |-> undefined,
              result |-> _typeof(marker, value)]
  /\ UNCHANGED <<marker, writes, saved, slot>>

\* B[Symbol.builtin] = A[Symbol.builtin]
Copy(A, B) ==
  /\ last = NoCall
  /\ saved = NoCapture
  /\ writes < MaxWrites
  /\ A # B
  /\ marker' = [marker EXCEPT ![B] = LookupMarker(marker, A)]
  /\ writes' = writes + 1
  /\ UNCHANGED <<last, saved, slot>>

\* delete object[Symbol.builtin]: the marker property is configurable
Delete(object) ==
  /\ last = NoCall
  /\ saved = NoCapture
  /\ writes < MaxWrites
  /\ marker' = [marker EXCEPT ![object] = ABSENT]
  /\ writes' = writes + 1
  /\ UNCHANGED <<last, saved, slot>>

\* object[kBuiltin] = value in strict mode, kBuiltin found with
\* Object.getOwnPropertySymbols: a TypeError unless the property is writable
SetSlot(object, value) ==
  /\ last = NoCall
  /\ slot' = IF slot[object].writable
               THEN [slot EXCEPT ![object].value = value] ELSE slot
  /\ last' = [op |-> "setSlot", value1 |-> Ref(object), value2 |-> value,
              result |-> IF slot[object].writable THEN Normal(value)
                         ELSE Throw("TypeError")]
  /\ UNCHANGED <<marker, writes, saved>>

\* delete object[kBuiltin] in strict mode: a TypeError unless the property
\* is configurable
DeleteSlot(object) ==
  /\ last = NoCall
  /\ slot' = IF slot[object].configurable
               THEN [slot EXCEPT ![object].value = ABSENT] ELSE slot
  /\ last' = [op |-> "deleteSlot", value1 |-> Ref(object),
              value2 |-> undefined,
              result |-> IF slot[object].configurable THEN True
                         ELSE Throw("TypeError")]
  /\ UNCHANGED <<marker, writes, saved>>

\* builtin.call(this); a detached call has this = undefined (strict mode)
InvokeBuiltin(this) ==
  /\ last = NoCall
  /\ last' = [op |-> "builtin", value1 |-> this, value2 |-> undefined,
              result |-> builtin(this)]
  /\ UNCHANGED <<marker, writes, saved, slot>>

\* the caller takes the result and goes on
Return ==
  /\ last # NoCall
  /\ last' = NoCall
  /\ UNCHANGED <<marker, writes, saved, slot>>

\* const orig = K[Symbol.builtin]
Capture(K) ==
  /\ last = NoCall
  /\ saved = NoCapture
  /\ saved' = [phase |-> "captured", object |-> K,
               fn |-> LookupMarker(marker, K), before |-> marker]
  /\ UNCHANGED <<marker, writes, last, slot>>

\* K[Symbol.builtin] = undefined
Mask ==
  /\ saved.phase = "captured"
  /\ marker' = [marker EXCEPT ![saved.object] = undefined]
  /\ saved' = [saved EXCEPT !.phase = "masked"]
  /\ UNCHANGED <<writes, last, slot>>

\* the write-back on a marker property that is not writable
Restore_notWritable ==
  /\ saved.phase = "masked"
  /\ saved' = [saved EXCEPT !.phase = "restored"]
  /\ UNCHANGED <<marker, writes, last, slot>>

\* K[Symbol.builtin] = orig
Restore ==
  /\ saved.phase = "masked"
  /\ marker' = [marker EXCEPT ![saved.object] = saved.fn]
  /\ saved' = [saved EXCEPT !.phase = "restored"]
  /\ UNCHANGED <<writes, last, slot>>

\* orig goes out of scope
Forget ==
  /\ saved.phase = "restored"
  /\ saved' = NoCapture
  /\ UNCHANGED <<marker, writes, last, slot>>

Next ==
  \/ \E object \in Mutable, value \in MarkerValues : Write(object, value)
  \/ \E value1 \in IsArgs, value2 \in IsArgs : Is(value1, value2)
  \/ \E value \in TypeOfArgs : TypeOf(value)
  \/ Return

Spec == Init /\ [][Next]_vars

NextRestore ==
  \/ \E object \in Mutable, value \in MarkerValues : Write(object, value)
  \/ \E K \in Capturable : Capture(K)
  \/ Mask
  \/ Restore
  \/ Forget

SpecRestore == Init /\ [][NextRestore]_vars

NextAny ==
  \/ \E object \in AnyWritable, value \in AnyValues : Write(object, value)
  \/ \E value1 \in IsArgsAny, value2 \in IsArgsAny : Is(value1, value2)
  \/ \E value \in TypeOfArgsAny : TypeOf(value)
  \/ \E this \in Receivers : InvokeBuiltin(this)
  \/ Return

SpecAny == Init /\ [][NextAny]_vars

NextSlot ==
  \/ \E object \in Mutable, value \in MarkerValues : Write(object, value)
  \/ \E object \in Mutable : Delete(object)
  \/ \E object \in Slotted, value \in SlotValues : SetSlot(object, value)
  \/ \E object \in Slotted : DeleteSlot(object)
  \/ \E value1 \in IsArgs, value2 \in IsArgs : Is(value1, value2)
  \/ \E value \in TypeOfArgs : TypeOf(value)
  \/ \E this \in Receivers : InvokeBuiltin(this)
  \/ Return

SpecSlot == Init /\ [][NextSlot]_vars

NextReturns ==
  \/ \E object \in AnyWritable, value \in ReturnValues : Write(object, value)
  \/ \E A \in AnyWritable, B \in AnyWritable : Copy(A, B)
  \/ \E value1 \in IsArgsAny, value2 \in IsArgsAny : Is(value1, value2)
  \/ \E value \in TypeOfArgsAny : TypeOf(value)
  \/ Return

SpecReturns == Init /\ [][NextReturns]_vars

NextErrors ==
  \/ \E object \in ErrWritable,
        value \in {undefined, Ref("builtin"), Ref("retDate")} :
          Write(object, value)
  \/ \E object \in ErrWritable : Delete(object)
  \/ \E value1 \in IsArgsErr, value2 \in IsArgsErr : Is(value1, value2)
  \/ \E value \in TypeOfArgsErr : TypeOf(value)
  \/ Return

SpecErrors == Init /\ [][NextErrors]_vars

(***************************************************************************)
(* Properties                                                              *)
(***************************************************************************)
\* value is an object (or function) with an own kSymbol property
OwnTagged(value) == value.k = "ref" /\ OwnMarker(marker, value.v) # ABSENT

\* value is an object whose own marker reads, without failing, as a string
OwnKindDefined(value) ==
  /\ value.k = "ref"
  /\ GetOwnBuiltinValue(marker, value).c = "normal"
  /\ GetOwnBuiltinValue(marker, value).r.k = "string"

\* value is an object that still carries the default callable of its realm
\* over its own [kBuiltin] slot
DefaultTagged(value) ==
  /\ value.k = "ref"
  /\ Heap[value.v].kBuiltin # ABSENT
  /\ OwnMarker(marker, value.v) \in {Ref("builtin"), Ref("builtin@2")}

\* the constructor an object value resolves to is the registered K
ConstructorIs(value, K) ==
  value.k = "ref" /\ LookupConstructor(value.v) = Ref(K)

Realm(id) ==
  IF id \in Realm2Classes
       \cup {"builtin@2", "plain@2", "Object.prototype@2",
             "Function.prototype@2"}
       \cup {PrototypeOf(K) : K \in Realm2Classes}
       \cup {New(K) : K \in Realm2Classes}
    THEN 2 ELSE 1

C2_IsIffOwnKindsEqual ==
  (/\ last.op = "is"
   /\ last.value1.k = "ref" /\ last.value2.k = "ref"
   /\ GetOwnBuiltinValue(marker, last.value1).c = "normal"
   /\ GetOwnBuiltinValue(marker, last.value2).c = "normal")
  => last.result =
       IF /\ OwnKindDefined(last.value1) /\ OwnKindDefined(last.value2)
          /\ GetOwnBuiltinValue(marker, last.value1)
               = GetOwnBuiltinValue(marker, last.value2)
         THEN True ELSE False

\* C3 (as claimed): is with value2 omitted returns true for every object or
\* function whose own marker resolves to a defined string, and false once
\* that marker is undefined.
C3_SingleArgumentTrue ==
  (last.op = "is" /\ last.value2 = undefined) =>
    /\ OwnKindDefined(last.value1) => last.result = True
    /\ (OwnTagged(last.value1)
        /\ OwnMarker(marker, last.value1.v) = undefined)
         => last.result = False

\* the fixed fallback table of the claim: 'null' for null, else the kind tag
FallbackTag(value) == IF value = null THEN "null" ELSE value.k

\* C4 (as claimed): typeOf of a primitive returns the fallback
\* classification: 'null', 'undefined', 'boolean', 'number', 'string', 'symbol'.
C4_TypeOfPrimitive ==
  (last.op = "typeOf" /\ last.value1 \in Primitives)
  => last.result = Normal(Str(FallbackTag(last.value1)))

\* every marker written so far is the default callable or undefined
OnlyDefaultWrites ==
  \A id \in Mutable :
    marker[id] \in {InitialMarker(id), undefined, Ref("builtin")}

\* C5 (as claimed): while markers were only written with the default
\* callable or undefined, typeOf returns a string, without throwing, for
\* every input.
C5_TypeOfTotal ==
  (last.op = "typeOf" /\ OnlyDefaultWrites)
  => (last.result.c = "normal" /\ last.result.r.k = "string")

\* C6: once the own marker of a registered K is undefined, typeOf of an
\* instance whose constructor is K returns the primitive fallback (typeof of
\* the instance), and is(K, x) is false for every x.
C6_Masking ==
  \A K \in Registered :
    OwnMarker(marker, K) = undefined =>
      /\ (last.op = "typeOf" /\ ConstructorIs(last.value1, K))
           => last.result = Normal(Str(typeof(last.value1)))
      /\ (last.op = "is" /\ last.value1 = Ref(K)) => last.result = False

C6_Witness ==
  /\ marker["Date"] = undefined
  /\ last.op = "typeOf"
  /\ last.value1 = Ref(New("Date"))
  /\ last.result = Normal(Str("object"))

SuperOf(Sub) == IF Sub = "MyArray" THEN "Uint8Array" ELSE "Foo"

\* C8: for class Sub extends K with K tagged, typeOf(new Sub()) is K's kind
\* name when Sub has no own marker, and what Sub's own marker resolves to
\* when Sub has one.
C8_SubclassInheritance ==
  \A Sub \in {"MyArray", "Bar"} :
    (last.op = "typeOf" /\ last.value1 = Ref(New(Sub))) =>
      /\ (~OwnTagged(Ref(Sub)) /\ OwnKindDefined(Ref(SuperOf(Sub))))
           => last.result = GetOwnBuiltinValue(marker, Ref(SuperOf(Sub)))
      /\ (OwnTagged(Ref(Sub)) /\ OwnKindDefined(Ref(Sub)))
           => last.result = GetOwnBuiltinValue(marker, Ref(Sub))

C8_Witness ==
  /\ last.op = "typeOf"
  /\ last.value1 = Ref(New("MyArray"))
  /\ ~OwnTagged(Ref("MyArray"))
  /\ marker["Uint8Array"] = Ref("builtin")
  /\ last.result = Normal(Str("Uint8Array"))

RECURSIVE Unmarked(_)
\* no object on the prototype chain of id has an own kSymbol property
Unmarked(id) ==
  id = "null" \/ (OwnMarker(marker, id) = ABSENT /\ Unmarked(Heap[id].proto))

\* the string a caller-supplied marker function returns
Returned(fn) == IF fn = Ref("retDate") THEN Str("Date") ELSE Str("Foo")

\* C11: typeOf of an instance of a user class whose own marker is a function
\* returning a string s is s, and typeOf of an instance of a user class with
\* no marker anywhere on its constructor's chain is 'object'
C11_Masquerading ==
  \A M \in UserClasses :
    (last.op = "typeOf" /\ last.value1 = Ref(New(M))) =>
      /\ OwnMarker(marker, M) \in {Ref("retDate"), Ref("retFoo")} =>
           last.result = Normal(Returned(OwnMarker(marker, M)))
      /\ Unmarked(M) => last.result = Normal(Str("object"))

C11_Witness ==
  /\ last.op = "typeOf"
  /\ last.value1 = Ref("new MyArray")
  /\ marker["MyArray"] = Ref("retDate")
  /\ last.result = Normal(Str("Date"))

\* C12 (as claimed): a marker that is itself a string s is read as s:
\* typeOf of an instance of its object returns s, and is on the object
\* completes without a failure and finds the object of its own kind
C12_StringMarker ==
  \A K \in AnyWritable :
    marker[K].k = "string" =>
      /\ (last.op = "typeOf" /\ last.value1 = Ref(New(K)))
           => last.result = Normal(marker[K])
      /\ (last.op = "is" /\ last.value1 = Ref(K))
           => /\ last.result.c = "normal"
              /\ last.value2 = Ref(K) => last.result = True

\* the marker values that are neither a string nor a function
NotAKind == {undefined, null, Num("1"), Bool("true"), Ref("obj")}

\* C13 (as claimed): while the marker of an object is a value that is
\* neither a string nor a function, is on the object returns false and
\* typeOf of its instances returns the typeof tag
C13_NonKindMarkerMasks ==
  \A K \in AnyWritable :
    marker[K] \in NotAKind =>
      /\ (last.op = "is" /\ last.value1 = Ref(K)) => last.result = False
      /\ (last.op = "typeOf" /\ last.value1 = Ref(New(K)))
           => last.result = Normal(Str(typeof(last.value1)))

\* neither the receiver nor an object on its prototype chain has the slot
LacksSlot(this) ==
  this.k \in {"undefined", "null"} \/ LookupBuiltinSlot(LookupStart(this)) = undefined

\* the unregistered classes the default marker function is copied onto
Unregistered == AnyWritable \ Registered

\* C14 (as claimed): the default marker function called with any receiver
\* that lacks the slot, a detached call included, returns undefined; and
\* typeOf of an instance of an unregistered class carrying it is 'object'
C14_DefaultCallableTotal ==
  /\ (last.op = "builtin" /\ LacksSlot(last.value1))
       => last.result = Normal(undefined)
  /\ \A K \in Unregistered :
       (last.op = "typeOf" /\ last.value1 = Ref(New(K))
          /\ marker[K] = Ref("builtin"))
         => last.result = Normal(Str("object"))

\* C14 (amended): the default marker function called with an object or
\* function that lacks the slot returns undefined; called with a receiver
\* that is not an object or function (a detached call, a primitive) or with
\* null it throws a TypeError; and typeOf of an instance of an unregistered
\* class carrying it is 'object'
C14_DefaultCallableOnObjects ==
  /\ (last.op = "builtin" /\ LacksSlot(last.value1))
       => last.result = IF last.value1.k = "ref" THEN Normal(undefined)
                        ELSE Throw("TypeError")
  /\ \A K \in Unregistered :
       (last.op = "typeOf" /\ last.value1 = Ref(New(K))
          /\ marker[K] = Ref("builtin"))
         => last.result = Normal(Str("object"))

C14_Witness ==
  /\ last.op = "typeOf"
  /\ last.value1 = Ref("new N")
  /\ marker["N"] = Ref("builtin")
  /\ last.result = Normal(Str("object"))

\* C15 (as claimed): typeOf of the prototype object of a registered
\* constructor whose marker is unmodified returns 'object'
C15_PrototypeNotClassified ==
  \A K \in Registered \cap Classes :
    (last.op = "typeOf" /\ last.value1 = Ref(PrototypeOf(K))
       /\ OwnMarker(marker, K) = InitialMarker(K))
      => last.result = Normal(Str("object"))

\* the constructors and namespace objects that carry an own marker
Carriers == (Classes \cup Namespaces) \cap {id \in Objects : OwnTagged(Ref(id))}

Failing == {Ref("throws"), Ref("retSymbol")}

Failure(fn) == IF fn = Ref("throws") THEN Throw("Error") ELSE Throw("TypeError")

\* C17: a call of is or typeOf that consults a marker function that throws,
\* or that returns a symbol, ends in that failure: is for the own marker of
\* value1, and for the own marker of value2 once value1 has a kind (is does
\* not reach value2 when value1 is a plain object and value2 a function);
\* typeOf for the marker found on the constructor of its argument
C17_FailuresPropagate ==
  /\ (last.op = "is" /\ last.value1.k = "ref"
        /\ OwnMarker(marker, last.value1.v) \in Failing)
       => last.result = Failure(OwnMarker(marker, last.value1.v))
  /\ (last.op = "is" /\ OwnKindDefined(last.value1) /\ last.value2.k = "ref"
        /\ ~(typeof(last.value1) = "object" /\ typeof(last.value2) = "function")
        /\ OwnMarker(marker, last.value2.v) \in Failing)
       => last.result = Failure(OwnMarker(marker, last.value2.v))
  /\ (last.op = "typeOf" /\ last.value1.k = "ref"
        /\ LookupConstructor(last.value1.v).k = "ref"
        /\ LookupMarker(marker, LookupConstructor(last.value1.v).v) \in Failing)
       => last.result =
            Failure(LookupMarker(marker, LookupConstructor(last.value1.v).v))

C17_Witness ==
  /\ last.op = "is"
  /\ last.value1 = Ref("Date@2")
  /\ last.value2 = Ref("Date")
  /\ marker["Date"] = Ref("retSymbol")
  /\ last.result = Throw("TypeError")

\* C18: is returns false, and calls no marker function (a value2 whose
\* marker would fail makes no difference), whenever value1 is a primitive or
\* null; and is returns false whenever value1 has a kind of its own and
\* value2 is a primitive or null
C18_NonObjectsAreFalse ==
  /\ (last.op = "is" /\ last.value1.k # "ref") => last.result = False
  /\ (last.op = "is" /\ OwnKindDefined(last.value1) /\ last.value2.k # "ref")
       => last.result = False

C18_Witness ==
  /\ last.op = "is"
  /\ last.value1 = Num("1")
  /\ last.value2 = Ref("Date")
  /\ marker["Date"] = Ref("throws")
  /\ last.result = False

\* C19: in every state reached by marker writes, marker deletions, queries
\* and attempts to assign or delete the slot, the [kBuiltin] property of
\* every registered object holds the name given at registration, and the
\* default marker function called on that object returns that name
C19_SlotImmutable ==
  \A id \in Registered :
    /\ SlotOf(id) = Str(LabelOf(id))
    /\ builtin(Ref(id)) = Normal(Str(LabelOf(id)))

C19_Witness ==
  /\ last.op = "setSlot"
  /\ last.value1 = Ref("Date")
  /\ last.value2 = Str("Foo")
  /\ marker["Date"] = ABSENT
  /\ builtin(Ref("Date")) = Normal(Str("Date"))

\* C20: a step that is a call of is or typeOf leaves every marker and every
\* [kBuiltin] property as it was, and a step that changes a marker is a
\* caller's write or delete of the marker and no call
C20_Observational ==
  [][/\ (last' # last /\ last'.op \in {"is", "typeOf"})
          => (marker' = marker /\ slot' = slot)
     /\ marker' # marker => (writes' = writes + 1 /\ last' = last)]_vars

C20_Witness ==
  /\ last.op = "is"
  /\ last.value1 = Ref("MyArray")
  /\ last.value2 = Ref("Date")
  /\ marker["MyArray"] = Ref("retDate")
  /\ marker["Date"] = ABSENT
  /\ last.result = False

\* the constructor functions among the arguments of Builtin.is
IsConstructors == {v \in IsArgs : v.k = "ref" /\ v.v \in Classes}

\* the kind the own marker of constructor id declares in the present marker
\* state: the registered name under the default function, the string a
\* caller's function returns, undefined without a marker or under a masked one
KindNow(id) ==
  LET fn == OwnMarker(marker, id) IN
    CASE fn \in {Ref("builtin"), Ref("builtin@2")} -> LookupBuiltinSlot(id)
      [] fn \in {Ref("retDate"), Ref("retFoo")} -> Returned(fn)
      [] OTHER -> undefined

\* C21: whatever writes and calls came before, is on two constructor
\* functions whose markers do not throw answers from the markers as they
\* are at the call: true exactly when both declare a kind now and the two
\* kinds are equal
C21_NoCaching ==
  (last.op = "is" /\ last.value1 \in IsConstructors
     /\ last.value2 \in IsConstructors
     /\ OwnMarker(marker, last.value1.v) # Ref("throws")
     /\ OwnMarker(marker, last.value2.v) # Ref("throws"))
    => last.result =
         IF KindNow(last.value1.v) # undefined
              /\ KindNow(last.value1.v) = KindNow(last.value2.v)
           THEN True ELSE False

\* two writes have left the marker of Date as it was at first
C21_Witness ==
  /\ last.op = "is"
  /\ last.value1 = Ref("Date")
  /\ last.value2 = Ref("Date@2")
  /\ writes = 2
  /\ marker["Date"] = Ref("builtin")
  /\ last.result = True

\* the marker functions that return a value `${val}` turns into a string
Coercible == {Ref("ret1"), Ref("retStr1"), Ref("retNull"), Ref("retTrue")}

\* String(x) of the value x such a function returns
Coerced(fn) ==
  CASE fn \in {Ref("ret1"), Ref("retStr1")} -> Str("1")
    [] fn = Ref("retNull") -> Str("null")
    [] fn = Ref("retTrue") -> Str("true")

\* C22: a marker function that returns a number, a boolean or null declares
\* the kind String(x): typeOf of an instance returns String(x), and is on
\* two constructor functions is true exactly when the two strings are equal,
\* so for a marker returning 1 and a marker returning '1'
C22_ResultsCoerced ==
  /\ \A K \in AnyWritable :
       (last.op = "typeOf" /\ last.value1 = Ref(New(K))
          /\ marker[K] \in Coercible)
         => last.result = Normal(Coerced(marker[K]))
  /\ \A a \in AnyWritable, b \in AnyWritable :
       (last.op = "is" /\ last.value1 = Ref(a) /\ last.value2 = Ref(b)
          /\ marker[a] \in Coercible /\ marker[b] \in Coercible)
         => last.result =
              IF Coerced(marker[a]) = Coerced(marker[b]) THEN True ELSE False

C22_Witness ==
  /\ last.op = "is"
  /\ last.value1 = Ref("Date")
  /\ last.value2 = Ref("N")
  /\ marker["Date"] = Ref("ret1")
  /\ marker["N"] = Ref("retStr1")
  /\ last.result = True

\* C23 (as claimed): when the marker of the constructor resolves to the
\* empty string, typeOf returns the typeof tag of the value
C23_EmptyKindFallsBack ==
  \A K \in AnyWritable :
    (last.op = "typeOf" /\ last.value1 = Ref(New(K))
       /\ marker[K] = Ref("retEmpty"))
      => last.result = Normal(Str(typeof(last.value1)))

\* C23 (amended): typeOf returns the resolved marker whenever it is not
\* undefined: the empty string is returned as '', and only a marker that
\* resolves to undefined gives the typeof tag of the value
C23_EmptyKindReturned ==
  \A K \in AnyWritable :
    (last.op = "typeOf" /\ last.value1 = Ref(New(K))) =>
      /\ marker[K] = Ref("retEmpty") => last.result = Normal(Str(""))
      /\ marker[K] = Ref("retUndefined")
           => last.result = Normal(Str(typeof(last.value1)))

C23_Witness ==
  /\ last.op = "typeOf"
  /\ last.value1 = Ref("new Date")
  /\ marker["Date"] = Ref("retEmpty")
  /\ last.result = Normal(Str(""))

\* C24: typeOf of an object whose constructor property is absent or
\* undefined, or is a primitive or null, does not fail and returns the
\* typeof tag of the object
C24_NoConstructorFallsBack ==
  (last.op = "typeOf" /\ last.value1.k = "ref"
     /\ LookupConstructor(last.value1.v).k # "ref")
    => last.result = Normal(Str(typeof(last.value1)))

C24_Witness ==
  /\ last.op = "typeOf"
  /\ last.value1 = Ref("cnull")
  /\ LookupConstructor("cnull") = null
  /\ last.result = Normal(Str("object"))

C26_TableMatches ==
  /\ {BuiltinTable[n][1] : n \in DOMAIN BuiltinTable} = Registered
  /\ \A n \in DOMAIN BuiltinTable :
       builtin(Ref(BuiltinTable[n][1])) = Normal(Str(BuiltinTable[n][2]))

\* C27 (as claimed): in a marker state where no marker throws, is(a, b)
\* and is(b, a) give the same result for all a and b other than undefined
C27_IsSymmetric ==
  (last.op = "is" /\ last.value1 # undefined /\ last.value2 # undefined
     /\ \A id \in Tracked : marker[id] # Ref("throws"))
    => last.result = _is(marker, last.value2, last.value1)

\* C28: once the own marker property of a registered constructor K is
\* deleted, is(K, x) is false for every x; typeOf of an instance of K is
\* still the name K was registered under while the nearest marker on K's
\* prototype chain is the default function of a registered ancestor, and is
\* the typeof tag when no object on the chain carries a marker
C28_DeleteIsNotMask ==
  \A K \in ErrWritable :
    marker[K] = ABSENT =>
      /\ (last.op = "is" /\ last.value1 = Ref(K)) => last.result = False
      /\ (last.op = "typeOf" /\ last.value1 = Ref(New(K))) =>
           /\ LookupMarker(marker, Heap[K].proto) = Ref("builtin")
                => last.result = Normal(Str(LabelOf(K)))
           /\ Unmarked(K) => last.result = Normal(Str(typeof(last.value1)))

C28_Witness ==
  /\ last.op = "typeOf"
  /\ last.value1 = Ref("new RangeError")
  /\ marker["RangeError"] = ABSENT
  /\ marker["Error"] = Ref("builtin")
  /\ last.result = Normal(Str("RangeError"))

RECURSIVE Visited(_)
\* the objects a read of id[kSymbol] visits: id and its prototypes up to
\* and with the first that has an own marker property
Visited(id) ==
  IF id = "null" THEN {}
  ELSE IF OwnMarker(marker, id) # ABSENT THEN {id}
  ELSE {id} \cup Visited(Heap[id].proto)

\* typeOf(value) reads its kind through object X
ResolvesThrough(value, X) ==
  /\ value.k = "ref"
  /\ LookupConstructor(value.v).k = "ref"
  /\ X \in Visited(LookupConstructor(value.v).v)

\* C29: a step that changes the own marker of one object X, and of no other,
\* leaves the result of every is call that does not have X as an argument,
\* and of every typeOf call whose argument does not read its kind through X,
\* as it was
C29_WritesIsolated ==
  [][\A X \in Tracked :
       (marker'[X] # marker[X]
          /\ \A id \in Tracked \ {X} : marker'[id] = marker[id])
         => /\ \A value1 \in IsArgsErr, value2 \in IsArgsErr :
                 (value1 # Ref(X) /\ value2 # Ref(X))
                   => _is(marker', value1, value2)
                        = _is(marker, value1, value2)
            /\ \A value \in TypeOfArgsErr :
                 ~ResolvesThrough(value, X)
                   => _typeof(marker', value) = _typeof(marker, value)]_vars

\* Error is masked; RangeError is still of its kind
C29_Witness ==
  /\ last.op = "is"
  /\ last.value1 = Ref("RangeError")
  /\ last.value2 = Ref("RangeError@2")
  /\ marker["Error"] = undefined
  /\ marker["RangeError"] = Ref("builtin")
  /\ last.result = True

\* C30: in a call of is the marker of value2 is called at most once, and
\* only after the own marker of value1 was called and gave a string; when
\* value1 is a primitive, has no own marker, or its marker resolves to
\* undefined, the marker of value2 is not called and is returns false, also
\* when that marker would throw
C30_Value1First ==
  last.op = "is" =>
    LET calls == IsInvocations(marker, last.value1, last.value2)
        second == {i \in DOMAIN calls : calls[i] = "value2"} IN
      /\ Cardinality(second) <= 1
      /\ second # {} =>
           /\ OwnKindDefined(last.value1)
           /\ \A i \in second : \E j \in 1..(i - 1) : calls[j] = "value1"
      /\ (\/ last.value1.k # "ref"
          \/ ~HasOwnMarker(marker, last.value1)
          \/ GetOwnBuiltinValue(marker, last.value1) = Normal(undefined))
           => (second = {} /\ last.result = False)

C30_Witness ==
  /\ last.op = "is"
  /\ last.value1 = Ref("obj")
  /\ last.value2 = Ref("Date")
  /\ marker["Date"] = Ref("throws")
  /\ IsInvocations(marker, last.value1, last.value2) = <<>>
  /\ last.result = False

====
